---- MODULE Spec2Model ----
(***************************************************************************)
(* Model of src/app.py: the Flask query layer over the ns.annotations_terms *)
(* and ns.coordinates tables.  The state is the process-wide _engine, the   *)
(* environment (DB_URL), the read-only store content, and for each request  *)
(* thread the position of its handler, its locals and its response.         *)
(*                                                                         *)
(* Strings that the code parses (the coordinate operands) are sequences of  *)
(* one-character strings.  Coordinates held by the store are doubles; they  *)
(* are kept in tenths (1.5 is 15), so a parsed integer n equals a stored    *)
(* value v exactly when v = 10 * n.                                         *)
(* The queries carry no ORDER BY: a result list is kept as the set of its   *)
(* (DISTINCT) elements together with its length.                            *)
(***************************************************************************)
EXTENDS Integers, Sequences, FiniteSets, TLC

\* ----------------------------------------------------------------- bounds
MaxStudy == 2
MaxRows == 3
NThreads == 2

\* The result cap the specification asks for (result_limit, default 100).
ResultCap == 100

\* SQL NULL as a study_id.
NULL == 0

Threads == 1..NThreads
\* The one request thread of the sequential specification.
SeqThreads == {1}

StudyIds == {NULL} \cup (1..MaxStudy)

\* ------------------------------------------------------------ the inputs
Terms == {"fear", "pain"}
ReqTerms == Terms \cup {"memory"}

\* Coordinates present in the store, in tenths: (1,2,1) and (-1,2,1).
StoreCoords == {<<10, 20, 10>>, <<-10, 20, 10>>}

T1 == <<"1">>
T2 == <<"2">>
Tokens ==
    { T1, T2, <<"-", "1">>, <<"0", "1">>, <<"+", "1">>, <<" ", "1">>,
      <<"1", ".", "5">>, <<"-", "1", ".", "5">>, <<"a">>, <<"-">>, <<>> }

RECURSIVE Join(_)
Join(toks) ==
    IF Len(toks) = 0 THEN <<>>
    ELSE IF Len(toks) = 1 THEN toks[1]
    ELSE toks[1] \o <<"_">> \o Join(Tail(toks))

TokenLists ==
    { <<t, T2, T1>> : t \in Tokens }
    \cup { <<T1, T2>>, <<T1, T2, T1, T1>>, <<T1>>, <<T1, T2, <<"1", ".", "5">>>> }

\* The text of the <coords> path segment: never empty (the route would not match).
CoordStrings == { Join(ts) : ts \in TokenLists } \ {<<>>}
BaseCoordStrings == { Join(<<T1, T2, T1>>), Join(<<<<"-", "1">>, T2, T1>>) }

\* DB_URL: unset, or a URL given by its scheme.
UNSET == [scheme |-> "", rest |-> ""]
DbUrls ==
    { UNSET,
      [scheme |-> "postgres://", rest |-> "h/db"],
      [scheme |-> "postgresql://", rest |-> "h/db"],
      [scheme |-> "garbage", rest |-> ""] }

\* -------------------------------------------------------------- parsing
RECURSIVE SplitAcc(_, _, _)
SplitAcc(s, cur, acc) ==
    IF s = <<>> THEN Append(acc, cur)
    ELSE IF Head(s) = "_" THEN SplitAcc(Tail(s), <<>>, Append(acc, cur))
    ELSE SplitAcc(Tail(s), Append(cur, Head(s)), acc)

\* coords.split("_")
Split(s) == SplitAcc(s, <<>>, <<>>)

DigitChars == <<"0", "1", "2", "3", "4", "5", "6", "7", "8", "9">>
IsDigit(c) == \E i \in 1..Len(DigitChars) : DigitChars[i] = c
DigitVal(c) == (CHOOSE i \in 1..Len(DigitChars) : DigitChars[i] = c) - 1

RECURSIVE DigitsValue(_, _)
DigitsValue(s, acc) ==
    IF s = <<>> THEN acc ELSE DigitsValue(Tail(s), 10 * acc + DigitVal(Head(s)))

RECURSIVE LStrip(_)
LStrip(s) == IF s # <<>> /\ Head(s) = " " THEN LStrip(Tail(s)) ELSE s
RECURSIVE RStrip(_)
RStrip(s) ==
    IF s # <<>> /\ s[Len(s)] = " " THEN RStrip(SubSeq(s, 1, Len(s) - 1)) ELSE s
Strip(s) == RStrip(LStrip(s))

\* int(tok): surrounding whitespace is dropped, one optional sign, then one or
\* more decimal digits; anything else raises ValueError.
IntOf(tok) ==
    LET s == Strip(tok)
        signed == s # <<>> /\ Head(s) \in {"+", "-"}
        body == IF signed THEN Tail(s) ELSE s
        neg == signed /\ Head(s) = "-"
    IN  IF body = <<>> \/ \E i \in 1..Len(body) : ~IsDigit(body[i])
        THEN [ok |-> FALSE, val |-> 0]
        ELSE [ok |-> TRUE,
              val |-> IF neg THEN 0 - DigitsValue(body, 0) ELSE DigitsValue(body, 0)]

\* x, y, z = map(int, coords.split("_")): any exception is a failure.
ParseCoords(s) ==
    LET toks == Split(s)
    IN  IF Len(toks) # 3 \/ \E i \in 1..Len(toks) : ~IntOf(toks[i]).ok
        THEN [ok |-> FALSE, xyz |-> <<>>]
        ELSE [ok |-> TRUE,
              xyz |-> <<IntOf(toks[1]).val, IntOf(toks[2]).val, IntOf(toks[3]).val>>]

\* ------------------------------------------------------------------ SQL
\* WHERE term = :term
TermMatch(rows, term) == { r \in rows : r[2] = term }

\* WHERE ST_X(geom) = :x AND ST_Y(geom) = :y AND ST_Z(geom) = :z
CoordMatch(rows, xyz) ==
    { r \in rows : /\ r[2][1] = 10 * xyz[1]
                   /\ r[2][2] = 10 * xyz[2]
                   /\ r[2][3] = 10 * xyz[3] }

\* A mutant of NotIn: NOT EXISTS semantics, where a NULL never matches.
NotInAsNotExists(x, S) ==
    IF x = NULL \/ x \notin S THEN "TRUE" ELSE "FALSE"

\* A mutant of NotIn: the exclusion is not applied.
NotInIgnored(x, S) == "TRUE"

\* x NOT IN (S) in SQL's three-valued logic.
NotIn(x, S) ==
    IF S = {} THEN "TRUE"
    ELSE IF x = NULL THEN "NULL"
    ELSE IF x \in S THEN "FALSE"
    ELSE IF NULL \in S THEN "NULL"
    ELSE "TRUE"

\* SELECT DISTINCT study_id FROM <rows>
SelectDistinct(rows) == { r[1] : r \in rows }

\* SELECT DISTINCT study_id FROM t WHERE <inA> AND study_id NOT IN
\*   (SELECT study_id FROM t WHERE <inB>)
MinusQuery(matchA, matchB) ==
    SelectDistinct({ r \in matchA : NotIn(r[1], { q[1] : q \in matchB }) = "TRUE" })

\* ---------------------------------------------------------------- state
VARIABLES
    engine,     \* _engine: 0 is None, else the engine object's identity
    nCreated,   \* engine objects create_engine has returned so far
    dbUrl,      \* the environment: DB_URL / DATABASE_URL
    termRows,   \* ns.annotations_terms: <<study_id, term>>
    coordRows,  \* ns.coordinates: <<study_id, <<x, y, z>>>>, in tenths
    inUse,      \* connections checked out: <<engine, k>>
    pc,         \* each thread's position in its handler
    req,        \* each thread's request
    loc,        \* each thread's locals
    resp,       \* each thread's response
    log,        \* each thread's events of the current request, in order
    raised      \* the exception that ended the request, if any

vars == <<engine, nCreated, dbUrl, termRows, coordRows, inUse,
          pc, req, loc, resp, log, raised>>

NoReq == [kind |-> "none", a |-> <<>>, b |-> <<>>]
NoLoc == [db_url |-> UNSET, new |-> 0, eng |-> 0, conn |-> <<0, 0>>, ip |-> 1,
          xyzA |-> <<>>, xyzB |-> <<>>, studies_a |-> {}, studies_b |-> {}]
NoExc == [type |-> "", text |-> "", at |-> ""]
NoResp == [status |-> 0, kind |-> "none", keys |-> {},
           A_minus_B |-> {}, B_minus_A |-> {},
           count_a_minus_b |-> 0, count_b_minus_a |-> 0,
           studies |-> {}, count |-> 0, error |-> ""]

\* A mutant of Statements: the first query is issued before the search path is set.
StatementsQueryBeforeSet(kind) ==
    IF kind \in {"dterms", "dlocs"} THEN <<"A_MINUS_B", "SET", "B_MINUS_A">>
    ELSE <<"STUDIES", "SET">>

\* The SQL statements a handler issues inside "with eng.begin() as conn", in order.
Statements(kind) ==
    IF kind \in {"dterms", "dlocs"} THEN <<"SET", "A_MINUS_B", "B_MINUS_A">>
    ELSE <<"SET", "STUDIES">>

SqlStmts == {"SET", "A_MINUS_B", "B_MINUS_A", "STUDIES"}
PredicateStmts == SqlStmts \ {"SET"}

\* A mutant of QueryResult: the second query is a copy of the first.
QueryResultCopied(t, stmt) ==
    LET k == req[t].kind
        mA == IF k \in {"term", "dterms"} THEN TermMatch(termRows, req[t].a)
              ELSE CoordMatch(coordRows, loc[t].xyzA)
        mB == IF k = "dterms" THEN TermMatch(termRows, req[t].b)
              ELSE IF k = "dlocs" THEN CoordMatch(coordRows, loc[t].xyzB)
              ELSE {}
    IN  CASE stmt = "STUDIES" -> SelectDistinct(mA)
          [] stmt = "A_MINUS_B" -> SelectDistinct(mA)
          [] stmt = "B_MINUS_A" -> SelectDistinct(mB)
          [] OTHER -> {}

\* What a statement returns for thread t's request.
QueryResult(t, stmt) ==
    LET k == req[t].kind
        mA == IF k \in {"term", "dterms"} THEN TermMatch(termRows, req[t].a)
              ELSE CoordMatch(coordRows, loc[t].xyzA)
        mB == IF k = "dterms" THEN TermMatch(termRows, req[t].b)
              ELSE IF k = "dlocs" THEN CoordMatch(coordRows, loc[t].xyzB)
              ELSE {}
    IN  CASE stmt = "STUDIES" -> SelectDistinct(mA)
          [] stmt = "A_MINUS_B" -> MinusQuery(mA, mB)
          [] stmt = "B_MINUS_A" -> MinusQuery(mB, mA)
          [] OTHER -> {}

\* ------------------------------------------------------------ responses
\* jsonify(payload) of the handler of thread t.
Payload(t) ==
    IF req[t].kind \in {"dterms", "dlocs"}
    THEN [NoResp EXCEPT
            !.status = 200, !.kind = "json",
            !.keys = {"A_minus_B", "B_minus_A", "count_a_minus_b", "count_b_minus_a"}
                     \cup (IF req[t].kind = "dterms" THEN {"term_a", "term_b"}
                           ELSE {"coords_a", "coords_b"}),
            !.A_minus_B = loc[t].studies_a,
            !.B_minus_A = loc[t].studies_b,
            !.count_a_minus_b = Cardinality(loc[t].studies_a),
            !.count_b_minus_a = Cardinality(loc[t].studies_b)]
    ELSE [NoResp EXCEPT
            !.status = 200, !.kind = "json",
            !.keys = {"studies", "count"}
                     \cup (IF req[t].kind = "term" THEN {"term"} ELSE {"coordinates"}),
            !.studies = loc[t].studies_a,
            !.count = Cardinality(loc[t].studies_a)]

\* A mutant of ErrorResponse: what had been fetched is returned with the error.
ErrorResponsePartial(t, e) ==
    [NoResp EXCEPT !.status = 500, !.kind = "json",
                   !.keys = {"error"} \cup (IF loc[t].ip > 2 THEN {"A_minus_B"} ELSE {}),
                   !.A_minus_B = loc[t].studies_a,
                   !.error = e.text]

\* except Exception as e: return jsonify({"error": str(e)}), 500
ErrorResponse(t, e) ==
    [NoResp EXCEPT !.status = 500, !.kind = "json", !.keys = {"error"},
                   !.error = e.text]

\* An exception no handler catches: Flask's own 500 page.
Flask500 == [NoResp EXCEPT !.status = 500, !.kind = "html"]

\* abort(400, "Coordinates must be in x_y_z format.")
Abort400 ==
    [NoResp EXCEPT !.status = 400, !.kind = "html",
                   !.error = "Coordinates must be in x_y_z format."]

\* -------------------------------------------------------------- actions
Ev(name, conn) == [ev |-> name, conn |-> conn]

\* The request ends: its response is set and its connection, if any, goes back.
Finish(t, r, e) ==
    /\ resp' = [resp EXCEPT ![t] = r]
    /\ raised' = [raised EXCEPT ![t] = e]
    /\ pc' = [pc EXCEPT ![t] = "done"]
    /\ inUse' = inUse \ {loc[t].conn}

\* Where a handler goes once get_engine has returned.
AfterEngine(kind) == IF kind = "dlocs" THEN "parse" ELSE "begin"

\* Flask dispatches a request to its view function.
Request(t, kind, a, b) ==
    /\ pc[t] = "idle"
    /\ req' = [req EXCEPT ![t] = [kind |-> kind, a |-> a, b |-> b]]
    /\ pc' = [pc EXCEPT ![t] = IF kind = "loc" THEN "parse" ELSE "ge_check"]
    /\ UNCHANGED <<engine, nCreated, dbUrl, termRows, coordRows, inUse,
                   loc, resp, log, raised>>

\* The response is sent; the thread waits for its next request.
Deliver(t) ==
    /\ pc[t] = "done"
    /\ pc' = [pc EXCEPT ![t] = "idle"]
    /\ req' = [req EXCEPT ![t] = NoReq]
    /\ loc' = [loc EXCEPT ![t] = NoLoc]
    /\ resp' = [resp EXCEPT ![t] = NoResp]
    /\ raised' = [raised EXCEPT ![t] = NoExc]
    /\ log' = [log EXCEPT ![t] = <<>>]
    /\ UNCHANGED <<engine, nCreated, dbUrl, termRows, coordRows, inUse>>

\* get_engine: if _engine is not None: return _engine
GetEngineCheck(t) ==
    /\ pc[t] = "ge_check"
    /\ log' = [log EXCEPT ![t] = Append(@, Ev("get_engine", <<0, 0>>))]
    /\ IF engine # 0
       THEN /\ loc' = [loc EXCEPT ![t].eng = engine]
            /\ pc' = [pc EXCEPT ![t] = AfterEngine(req[t].kind)]
       ELSE /\ pc' = [pc EXCEPT ![t] = "ge_env"]
            /\ loc' = loc
    /\ UNCHANGED <<engine, nCreated, dbUrl, termRows, coordRows, inUse, req, resp, raised>>

\* get_engine: db_url = os.getenv(...); if not db_url: raise RuntimeError
GetEngineEnv(t) ==
    /\ pc[t] = "ge_env"
    /\ IF dbUrl = UNSET
       THEN /\ Finish(t, Flask500,
                      [type |-> "RuntimeError",
                       text |-> "Missing DB_URL (or DATABASE_URL) environment variable.",
                       at |-> "get_engine"])
            /\ loc' = loc
       ELSE /\ loc' = [loc EXCEPT ![t].db_url = dbUrl]
            /\ pc' = [pc EXCEPT ![t] = "ge_create"]
            /\ UNCHANGED <<resp, raised, inUse>>
    /\ UNCHANGED <<engine, nCreated, dbUrl, termRows, coordRows, req, log>>

\* if db_url.startswith("postgres://"): db_url = "postgresql://" + db_url[len(...):]
Normalize(u) ==
    IF u.scheme = "postgres://" THEN [u EXCEPT !.scheme = "postgresql://"] ELSE u

\* create_engine accepts a URL whose dialect it knows.
Creatable(u) == u.scheme = "postgresql://"

\* get_engine: create_engine(db_url, pool_pre_ping=True), before the assignment
GetEngineCreate(t) ==
    /\ pc[t] = "ge_create"
    /\ log' = [log EXCEPT ![t] = Append(@, Ev("create_engine", <<0, 0>>))]
    /\ IF Creatable(Normalize(loc[t].db_url))
       THEN /\ nCreated' = nCreated + 1
            /\ loc' = [loc EXCEPT ![t].new = nCreated + 1]
            /\ pc' = [pc EXCEPT ![t] = "ge_assign"]
            /\ UNCHANGED <<resp, raised, inUse>>
       ELSE /\ Finish(t, Flask500,
                      [type |-> "ArgumentError",
                       text |-> "Could not parse SQLAlchemy URL",
                       at |-> "get_engine"])
            /\ UNCHANGED <<nCreated, loc>>
    /\ UNCHANGED <<engine, dbUrl, termRows, coordRows, req>>

\* get_engine: _engine = <the new engine>
GetEngineAssign(t) ==
    /\ pc[t] = "ge_assign"
    /\ engine' = loc[t].new
    /\ pc' = [pc EXCEPT ![t] = "ge_return"]
    /\ UNCHANGED <<nCreated, dbUrl, termRows, coordRows, inUse, req, loc, resp, log, raised>>

\* get_engine: return _engine
GetEngineReturn(t) ==
    /\ pc[t] = "ge_return"
    /\ loc' = [loc EXCEPT ![t].eng = engine]
    /\ pc' = [pc EXCEPT ![t] = AfterEngine(req[t].kind)]
    /\ UNCHANGED <<engine, nCreated, dbUrl, termRows, coordRows, inUse, req, resp, log, raised>>

\* try: x, y, z = map(int, coords.split("_")) ... except Exception: abort(400, ...)
Parse(t) ==
    /\ pc[t] = "parse"
    /\ log' = [log EXCEPT ![t] = Append(@, Ev("parse", <<0, 0>>))]
    /\ LET pa == ParseCoords(req[t].a)
           pb == IF req[t].kind = "dlocs" THEN ParseCoords(req[t].b) ELSE pa
       IN  IF pa.ok /\ pb.ok
           THEN /\ loc' = [loc EXCEPT ![t].xyzA = pa.xyz,
                                      ![t].xyzB = IF req[t].kind = "dlocs" THEN pb.xyz ELSE <<>>]
                /\ pc' = [pc EXCEPT ![t] = IF req[t].kind = "loc" THEN "ge_check" ELSE "begin"]
                /\ UNCHANGED <<resp, raised, inUse>>
           ELSE /\ Finish(t, Abort400,
                          [type |-> "HTTPException", text |-> Abort400.error, at |-> "parse"])
                /\ loc' = loc
    /\ UNCHANGED <<engine, nCreated, dbUrl, termRows, coordRows, req>>

\* The lowest connection of engine e that is not checked out.
FreeConn(e) == <<e, CHOOSE k \in 1..(NThreads + 1) :
                       /\ <<e, k>> \notin inUse
                       /\ \A j \in 1..(k - 1) : <<e, j>> \in inUse>>

\* with eng.begin() as conn: a connection is checked out and a transaction begun
Begin(t, outcome) ==
    /\ pc[t] = "begin"
    /\ log' = [log EXCEPT ![t] = Append(@, Ev("begin", <<0, 0>>))]
    /\ IF outcome = "ok"
       THEN /\ loc' = [loc EXCEPT ![t].conn = FreeConn(loc[t].eng), ![t].ip = 1]
            /\ inUse' = inUse \cup {FreeConn(loc[t].eng)}
            /\ pc' = [pc EXCEPT ![t] = "exec"]
            /\ UNCHANGED <<resp, raised>>
       ELSE /\ Finish(t, ErrorResponse(t, [type |-> outcome, text |-> "connection refused",
                                           at |-> "begin"]),
                      [type |-> outcome, text |-> "connection refused", at |-> "begin"])
            /\ loc' = loc
    /\ UNCHANGED <<engine, nCreated, dbUrl, termRows, coordRows, req>>

ErrorText(outcome) ==
    IF outcome = "OperationalError" THEN "server closed the connection unexpectedly"
    ELSE "relation does not exist"

\* conn.execute(text(...)): the next statement of the handler
Exec(t, outcome) ==
    /\ pc[t] = "exec"
    /\ loc[t].ip <= Len(Statements(req[t].kind))
    /\ LET stmt == Statements(req[t].kind)[loc[t].ip]
           e == [type |-> outcome, text |-> ErrorText(outcome), at |-> stmt]
       IN  /\ log' = [log EXCEPT ![t] = Append(@, Ev(stmt, loc[t].conn))]
           /\ IF outcome = "ok"
              THEN /\ loc' = [loc EXCEPT
                                ![t].ip = @ + 1,
                                ![t].studies_a =
                                    IF stmt \in {"A_MINUS_B", "STUDIES"}
                                    THEN QueryResult(t, stmt) ELSE @,
                                ![t].studies_b =
                                    IF stmt = "B_MINUS_A" THEN QueryResult(t, stmt) ELSE @]
                   /\ UNCHANGED <<pc, resp, raised, inUse>>
              ELSE /\ Finish(t, ErrorResponse(t, e), e)
                   /\ loc' = loc
    /\ UNCHANGED <<engine, nCreated, dbUrl, termRows, coordRows, req>>

\* return jsonify(payload), leaving the with block: the transaction commits
Return(t, outcome) ==
    /\ pc[t] = "exec"
    /\ loc[t].ip > Len(Statements(req[t].kind))
    /\ log' = [log EXCEPT ![t] = Append(@, Ev("commit", loc[t].conn))]
    /\ LET e == [type |-> outcome, text |-> ErrorText(outcome), at |-> "commit"]
       IN  IF outcome = "ok"
           THEN Finish(t, Payload(t), NoExc)
           ELSE Finish(t, ErrorResponse(t, e), e)
    /\ UNCHANGED <<engine, nCreated, dbUrl, termRows, coordRows, req, loc>>

\* ------------------------------------------------------- specifications
TermStores == { S \in SUBSET (StudyIds \X Terms) : Cardinality(S) <= MaxRows }
CoordStores == { S \in SUBSET (StudyIds \X StoreCoords) : Cardinality(S) <= MaxRows }
\* A store with more matching studies than the cap.
BigTermStore == { <<i, "fear">> : i \in 1..(ResultCap + 1) }
BigCoordStore == { <<i, <<10, 20, 10>>>> : i \in 1..(ResultCap + 1) }
Stores ==
    { [terms |-> T, coords |-> {}] : T \in TermStores }
    \cup { [terms |-> {}, coords |-> C] : C \in CoordStores }
    \cup { [terms |-> BigTermStore, coords |-> BigCoordStore] }

InitLocals ==
    /\ engine = 0
    /\ nCreated = 0
    /\ inUse = {}
    /\ pc = [t \in Threads |-> "idle"]
    /\ req = [t \in Threads |-> NoReq]
    /\ loc = [t \in Threads |-> NoLoc]
    /\ resp = [t \in Threads |-> NoResp]
    /\ log = [t \in Threads |-> <<>>]
    /\ raised = [t \in Threads |-> NoExc]

Init ==
    /\ dbUrl \in DbUrls
    /\ \E st \in Stores : termRows = st.terms /\ coordRows = st.coords
    /\ InitLocals

Step(t) ==
    \/ GetEngineCheck(t)
    \/ GetEngineEnv(t)
    \/ GetEngineCreate(t)
    \/ GetEngineAssign(t)
    \/ GetEngineReturn(t)
    \/ Parse(t)
    \/ \E o \in {"ok", "OperationalError"} : Begin(t, o)
    \/ \E o \in {"ok", "OperationalError", "ProgrammingError"} : Exec(t, o)
    \/ \E o \in {"ok", "OperationalError"} : Return(t, o)
    \/ Deliver(t)

DLocPairs ==
    { p \in CoordStrings \X CoordStrings :
        p[1] \in BaseCoordStrings \/ p[2] \in BaseCoordStrings }

Arrive(t) ==
    \/ \E a \in ReqTerms : Request(t, "term", a, a)
    \/ \E a \in CoordStrings : Request(t, "loc", a, a)
    \/ \E a \in ReqTerms, b \in ReqTerms : Request(t, "dterms", a, b)
    \/ \E p \in DLocPairs : Request(t, "dlocs", p[1], p[2])

\* One request at a time, any store content, any operands.
Next == \E t \in SeqThreads : Arrive(t) \/ Step(t)

Spec == Init /\ [][Next]_vars

\* Concurrent request threads, one store content, a few operands.
InitConc ==
    /\ dbUrl \in DbUrls
    /\ termRows = {<<1, "fear">>, <<1, "pain">>, <<2, "fear">>}
    /\ coordRows = {<<1, <<10, 20, 10>>>>, <<2, <<-10, 20, 10>>>>}
    /\ InitLocals

ArriveConc(t) ==
    \/ Request(t, "term", "fear", "fear")
    \/ \E a \in BaseCoordStrings \cup {Join(<<T1, T2>>)} : Request(t, "loc", a, a)
    \/ Request(t, "dterms", "fear", "pain")
    \/ \E a \in BaseCoordStrings \cup {Join(<<T1, T2>>)} :
          Request(t, "dlocs", a, Join(<<T1, T2, T1>>))

NextConc == \E t \in Threads : ArriveConc(t) \/ Step(t)

SpecConc == InitConc /\ [][NextConc]_vars

\* -------------------------------------------------------------- claims
Done(t) == pc[t] = "done"
Dissociation(t) == req[t].kind \in {"dterms", "dlocs"}
Coordinate(t) == req[t].kind \in {"loc", "dlocs"}
Tenths(xyz) == <<10 * xyz[1], 10 * xyz[2], 10 * xyz[3]>>

\* The study has a row matching operand A (resp. B) of thread t's request.
HasRowA(t, s) ==
    IF req[t].kind = "dterms"
    THEN <<s, req[t].a>> \in termRows
    ELSE <<s, Tenths(loc[t].xyzA)>> \in coordRows
HasRowB(t, s) ==
    IF req[t].kind = "dterms"
    THEN <<s, req[t].b>> \in termRows
    ELSE <<s, Tenths(loc[t].xyzB)>> \in coordRows

\* C1: every study_id returned in A_minus_B has a row matching operand A and no
\* row matching operand B, and every one in B_minus_A has a row matching B and
\* none matching A.
C1_MinusIsInMinusOut ==
    \A t \in Threads :
        (Done(t) /\ Dissociation(t) /\ resp[t].status = 200) =>
            /\ \A s \in resp[t].A_minus_B : HasRowA(t, s) /\ ~HasRowB(t, s)
            /\ \A s \in resp[t].B_minus_A : HasRowB(t, s) /\ ~HasRowA(t, s)

\* A coordinate dissociation that returns a study and leaves out another one
\* that has rows for both operands.
C1_Witness ==
    \E t \in Threads :
        /\ Done(t) /\ req[t].kind = "dlocs" /\ resp[t].status = 200
        /\ resp[t].A_minus_B # {}
        /\ \E s \in StudyIds : HasRowA(t, s) /\ HasRowB(t, s)

\* C2: with operands A # B, no study_id is in both A_minus_B and B_minus_A of
\* one dissociation response.
C2_Disjoint ==
    \A t \in Threads :
        (Done(t) /\ Dissociation(t) /\ resp[t].status = 200 /\ req[t].a # req[t].b) =>
            resp[t].A_minus_B \cap resp[t].B_minus_A = {}

\* Both lists of one response are non-empty.
C2_Witness ==
    \E t \in Threads :
        /\ Done(t) /\ Dissociation(t) /\ resp[t].status = 200
        /\ req[t].a # req[t].b
        /\ resp[t].A_minus_B # {}
        /\ resp[t].B_minus_A # {}

\* The operands of a dissociation are the same term, or parse to the same triple.
SameOperands(t) ==
    IF req[t].kind = "dterms" THEN req[t].a = req[t].b
    ELSE /\ ParseCoords(req[t].a).ok
         /\ ParseCoords(req[t].b).ok
         /\ ParseCoords(req[t].a).xyz = ParseCoords(req[t].b).xyz

\* C3: when the operands are identical and no store step failed, the response is
\* 200 with A_minus_B and B_minus_A empty and both counts 0.
C3_SameOperandsEmpty ==
    \A t \in Threads :
        (Done(t) /\ Dissociation(t) /\ SameOperands(t) /\ raised[t] = NoExc) =>
            /\ resp[t].status = 200
            /\ resp[t].A_minus_B = {}
            /\ resp[t].B_minus_A = {}
            /\ resp[t].count_a_minus_b = 0
            /\ resp[t].count_b_minus_a = 0

\* Two different coordinate strings of one triple, with rows at that triple, one
\* of them with a NULL study_id.
C3_Witness ==
    \E t \in Threads :
        /\ Done(t) /\ req[t].kind = "dlocs" /\ SameOperands(t) /\ raised[t] = NoExc
        /\ req[t].a # req[t].b
        /\ <<NULL, Tenths(loc[t].xyzA)>> \in coordRows
        /\ \E s \in StudyIds \ {NULL} : HasRowA(t, s)

\* C4: no result list of a response holds more than ResultCap study ids.
C4_ResultWithinCap ==
    \A t \in Threads :
        Done(t) =>
            /\ Cardinality(resp[t].A_minus_B) <= ResultCap
            /\ Cardinality(resp[t].B_minus_A) <= ResultCap
            /\ Cardinality(resp[t].studies) <= ResultCap

\* A token that reads as a real number: optional sign, digits, optionally a
\* point and more digits.
IsRealToken(tok) ==
    LET s == Strip(tok)
        body == IF s # <<>> /\ Head(s) \in {"+", "-"} THEN Tail(s) ELSE s
        dots == { i \in 1..Len(body) : body[i] = "." }
    IN  /\ Cardinality(dots) <= 1
        /\ \E i \in 1..Len(body) : IsDigit(body[i])
        /\ \A i \in 1..Len(body) : IsDigit(body[i]) \/ body[i] = "."

\* Its value in tenths (tokens with at most one digit after the point).
RealTenths(tok) ==
    LET s == Strip(tok)
        signed == s # <<>> /\ Head(s) \in {"+", "-"}
        body == IF signed THEN Tail(s) ELSE s
        dot == IF \E i \in 1..Len(body) : body[i] = "."
               THEN CHOOSE i \in 1..Len(body) : body[i] = "."
               ELSE Len(body) + 1
        whole == DigitsValue(SubSeq(body, 1, dot - 1), 0)
        frac == IF dot < Len(body) THEN DigitVal(body[dot + 1]) ELSE 0
        mag == 10 * whole + frac
    IN  IF signed /\ Head(s) = "-" THEN 0 - mag ELSE mag

IsRealTriple(s) ==
    /\ Len(Split(s)) = 3
    /\ \A i \in 1..3 : IsRealToken(Split(s)[i])
RealTriple(s) ==
    <<RealTenths(Split(s)[1]), RealTenths(Split(s)[2]), RealTenths(Split(s)[3])>>

\* C5: a coordinate request whose operands are three real-valued tokens parses
\* to exactly those triples; one with another token count or a non-numeric
\* token ends with 400.
C5_ParseRealTriples ==
    \A t \in Threads :
        (Done(t) /\ Coordinate(t)) =>
            IF IsRealTriple(req[t].a) /\ IsRealTriple(req[t].b)
            THEN (\E i \in 1..Len(log[t]) : log[t][i].ev = "parse") =>
                    /\ raised[t].at # "parse"
                    /\ Tenths(loc[t].xyzA) = RealTriple(req[t].a)
                    /\ req[t].kind = "dlocs" => Tenths(loc[t].xyzB) = RealTriple(req[t].b)
            ELSE resp[t].status = 400

\* C6: a dissociation in which the SET statement or a predicate query failed
\* answers 500 with only an error, and neither A_minus_B nor B_minus_A.
C6_NoPartialResult ==
    \A t \in Threads :
        (Done(t) /\ Dissociation(t) /\ raised[t].at \in SqlStmts) =>
            /\ resp[t].status = 500
            /\ resp[t].keys = {"error"}
            /\ resp[t].A_minus_B = {}
            /\ resp[t].B_minus_A = {}

\* The second predicate query failed after the first had returned studies.
C6_Witness ==
    \E t \in Threads :
        /\ Done(t) /\ Dissociation(t)
        /\ raised[t].at = "B_MINUS_A"
        /\ loc[t].studies_a # {}

StoreErrors == {"RuntimeError", "ArgumentError", "OperationalError", "ProgrammingError"}
Issued(t, stmt) == { i \in 1..Len(log[t]) : log[t][i].ev = stmt }

\* C7: every store failure ends the request with 500 and the JSON body
\* {error: <the store's error text>}, and no statement is issued twice.
C7_StoreErrorIsJson500 ==
    \A t \in Threads :
        /\ \A stmt \in SqlStmts \cup {"begin", "commit"} : Cardinality(Issued(t, stmt)) <= 1
        /\ (Done(t) /\ raised[t].type \in StoreErrors) =>
              /\ resp[t].status = 500
              /\ resp[t].kind = "json"
              /\ resp[t].keys = {"error"}
              /\ resp[t].error = raised[t].text

\* A coordinate operand of the request is malformed.
Malformed(t) ==
    \/ ~ParseCoords(req[t].a).ok
    \/ req[t].kind = "dlocs" /\ ~ParseCoords(req[t].b).ok

\* C8: a coordinate request with a malformed operand never reaches the store
\* (no engine acquisition or creation, no connection) and ends with 400.
C8_ValidateBeforeStore ==
    \A t \in Threads :
        (Coordinate(t) /\ Malformed(t)) =>
            /\ \A i \in 1..Len(log[t]) : log[t][i].ev = "parse"
            /\ Done(t) => resp[t].status = 400

\* C9: in a request that reaches the store, SET search_path is issued exactly
\* once, before every predicate query, and every statement of the request runs
\* on the one connection the request's transaction began on.
C9_SchemaContextFirst ==
    \A t \in Threads :
        LET L == log[t]
            sql == { i \in 1..Len(L) : L[i].ev \in SqlStmts }
        IN  /\ sql # {} => Cardinality(Issued(t, "SET")) = 1
            /\ \A i \in sql : L[i].conn = loc[t].conn /\ L[i].conn[1] = loc[t].eng
            /\ \A i \in sql :
                  L[i].ev \in PredicateStmts =>
                      \E j \in 1..(i - 1) : L[j].ev = "SET" /\ L[j].conn = L[i].conn

\* A dissociation whose two predicate queries both ran.
C9_Witness ==
    \E t \in Threads :
        /\ Done(t) /\ Dissociation(t) /\ resp[t].status = 200
        /\ Issued(t, "A_MINUS_B") # {}
        /\ Issued(t, "B_MINUS_A") # {}

\* C10: create_engine returns at most one engine per process and every caller
\* of get_engine holds the same engine.
C10_OneEngine ==
    /\ nCreated <= 1
    /\ \A t \in Threads, u \in Threads :
          (loc[t].eng # 0 /\ loc[u].eng # 0) => loc[t].eng = loc[u].eng

====
